---- MODULE Spec2Model ----
(***************************************************************************)
(* Hybrid retrieval and reranking pipeline (userstory_rating_rag).         *)
(*                                                                         *)
(* Spec      one POST /api/search/rerank request on the server             *)
(*           (src/unnamed/part_002, lines 1611-1936): validation, backend  *)
(*           connection, embedding call, the two concurrent retrievals,    *)
(*           score normalisation, fusion, sort, truncation, response.      *)
(* SpecHybrid one POST /api/search/hybrid request on the server           *)
(*           (lines 1317-1608): the two retrievals one after the other     *)
(*           and the weighted combination of the normalised scores.        *)
(* SpecOrch  one run of the client-side pipeline orchestrator              *)
(*           handleLlmRagTest (PromptSchemaManager.js, lines 503-958),     *)
(*           with the answer of /api/test-prompt (part_002, 996-1002).     *)
(*           SpecOrchFair adds that every awaited call settles.            *)
(* SpecDedup one POST /api/search/deduplicate request on the server        *)
(*           (src/unnamed/part_002, lines 734-790) with its similarity     *)
(*           function calculateTextSimilarity (lines 1027-1036).           *)
(* SpecJobs  the in-memory job registry of the server (lines 54-92), the   *)
(*           requests that create and read jobs (lines 159-172, 386-436),  *)
(*           the background workers processEmbeddings (lines 438-634) and  *)
(*           the periodic sweep, interleaved as the event loop runs them.  *)
(*           SpecJobsFair runs the steps that write the registry and adds  *)
(*           that every spawned child process exits.                       *)
(* SpecBatch one run of the bulk embedding loader                          *)
(*           (src/src/scripts/embeddings/create-embeddings-batch.js; the   *)
(*           user-story loader create-userstories-embeddings-batch.js has  *)
(*           the same loop): batches, groups of concurrent batch calls     *)
(*           with retries, insertion of the embedded items.                *)
(*                                                                         *)
(* Real-valued scores are exact rationals <<num, den>> with den > 0.       *)
(* Raw scores are integers counted in halves (One is the score 1.0).       *)
(***************************************************************************)
EXTENDS Integers, Sequences, FiniteSets, TLC

VARIABLES
    \* ---- POST /api/search/rerank ----
    pc,              \* position of the handler
    req,             \* destructured request body
    conn,            \* the request's MongoClient: "none" | "open" | "closed"
    embedCalls,      \* embedding-service calls made for this request
    embedFailures,   \* failed answers the embedding service gives before it succeeds
    bm25Task,        \* collection.aggregate(bm25Pipeline): "idle" | "pending" | "ok" | "failed"
    vectorTask,      \* collection.aggregate(vectorPipeline): same
    bm25Results,     \* what the lexical retrieval returned
    vectorResults,   \* what the vector retrieval returned
    rerankStarted,   \* whether rerankStartTime has been taken: step 2 (fusion) has begun
    fusedResults,    \* the handler's fusedResults array
    res,             \* the HTTP response
    \* ---- POST /api/search/hybrid ----
    hpc,                 \* position of the handler
    hybridReq,           \* destructured request body
    hybridBm25,          \* bm25Results of the handler
    hybridVector,        \* vectorResults of the handler
    combinedResults,     \* combinedResults after the sort
    hybridRes,           \* the HTTP response
    \* ---- handleLlmRagTest ----
    opc,                 \* position of the orchestrator
    generationProgress,  \* React state generationProgress
    llmRagTesting,       \* React state llmRagTesting
    llmRagResult,        \* React state llmRagResult
    progressLog,         \* every value passed to setGenerationProgress in this run
    stageLog,            \* <<stage, outcome>> of each remote call of this run, in order
    searchResults,       \* searchData.results.length
    finalResults,        \* finalResults.length
    topResults,          \* topResults.length
    finalQuery,          \* the query sent to the search stages: "original" | "processed"
    topResultsForSummary,\* topResultsForSummary.length
    aiResponse,          \* the completion text /api/test-prompt got from the model
    \* ---- POST /api/search/deduplicate ----
    dpc,                 \* position of the handler: "idle" | "done"
    dedupReq,            \* destructured request body: results, threshold
    dedupRes,            \* the HTTP response
    \* ---- job registry ----
    jobs,                \* the Map jobs: job id -> record
    now,                 \* Date.now(), counted in sweep periods
    nextJob,             \* jobs created so far; the next job gets id nextJob + 1
    worker,              \* per created job, the locals of its processEmbeddings call
    jobRes,              \* the response sent in the step just taken, if it was a request
    \* ---- bulk embedding loader ----
    bpc,                 \* position of main(): "idle" | "embedding" | "inserting" | "delay" | "done"
    testcases,           \* testcases.length
    groupStart,          \* i of the loop over groups of batches
    calls,               \* per batch number, the state of its generateBatchEmbeddings call
    resultIdx,           \* batch number of the batchResult being processed
    insertFrom,          \* j of the loop over sub-batches of that result
    totals               \* processedCount, totalInserted, totalFailed

rerankVars == <<pc, req, conn, embedCalls, embedFailures, bm25Task, vectorTask,
                bm25Results, vectorResults, rerankStarted, fusedResults, res>>
hybridVars == <<hpc, hybridReq, hybridBm25, hybridVector, combinedResults, hybridRes>>
orchVars == <<opc, generationProgress, llmRagTesting, llmRagResult, progressLog, stageLog,
              searchResults, finalResults, topResults, finalQuery, topResultsForSummary,
              aiResponse>>
dedupVars == <<dpc, dedupReq, dedupRes>>
jobVars == <<jobs, now, nextJob, worker, jobRes>>
batchVars == <<bpc, testcases, groupStart, calls, resultIdx, insertFrom, totals>>
vars == <<rerankVars, hybridVars, orchVars, dedupVars, jobVars, batchVars>>

\* what the actions of each part leave alone
exceptRerank == <<hybridVars, orchVars, dedupVars, jobVars, batchVars>>
exceptHybrid == <<rerankVars, orchVars, dedupVars, jobVars, batchVars>>
exceptOrch == <<rerankVars, hybridVars, dedupVars, jobVars, batchVars>>
exceptDedup == <<rerankVars, hybridVars, orchVars, jobVars, batchVars>>
exceptJobs == <<rerankVars, hybridVars, orchVars, dedupVars, batchVars>>
exceptBatch == <<rerankVars, hybridVars, orchVars, dedupVars, jobVars>>

(***************************************************************************)
(* Bounds                                                                  *)
(***************************************************************************)
NumIds == 2            \* documents in the corpus
RerankTopK == 2        \* rerankTopK of the request: each retrieval returns at most this many
MaxLimit == 2          \* largest limit a caller sends
MaxEmbedFailures == 4  \* most consecutive failures of the embedding service
MaxHits == 12          \* most results the hybrid search endpoint returns to the orchestrator

\* raw scores are counted in halves
One == 1 + 1                 \* the score 1.0
Ids == 1..NumIds
Bm25Scores == 1..(One + 1)   \* searchScore: 0.5, 1.0, 1.5
VectorScores == 1..One       \* vectorSearchScore: 0.5, 1.0
Limits == 0..MaxLimit
FusionMethods == {"rrf", "weighted", "reciprocal", "other"}

(***************************************************************************)
(* Exact rational arithmetic                                               *)
(***************************************************************************)
Rat(n, d) == <<n, d>>
RatZero == Rat(0, 1)
RatOne == Rat(1, 1)
RatAdd(a, b) == Rat(a[1] * b[2] + b[1] * a[2], a[2] * b[2])
RatMul(a, b) == Rat(a[1] * b[1], a[2] * b[2])
RatEq(a, b) == a[1] * b[2] = b[1] * a[2]
RatLess(a, b) == a[1] * b[2] < b[1] * a[2]
RatLeq(a, b) == a[1] * b[2] <= b[1] * a[2]

\* {bm25Weight, vectorWeight} a caller sends: the defaults and the two pure ones
WeightPairs == { <<Rat(4, 10), Rat(6, 10)>>, <<Rat(1, 1), Rat(0, 1)>>,
                 <<Rat(0, 1), Rat(1, 1)>> }

(***************************************************************************)
(* Candidate lists the search backend can return: at most RerankTopK       *)
(* documents, no document twice, ordered by score descending.              *)
(***************************************************************************)
SeqsUpTo(S, n) == UNION { [1..k -> S] : k \in 0..n }

IsRanking(l) ==
    /\ \A i, j \in DOMAIN l : i < j => l[i].id # l[j].id /\ l[i].score >= l[j].score

Rankings(scores) ==
    { l \in SeqsUpTo([id : Ids, score : scores], RerankTopK) : IsRanking(l) }

IdsOf(l) == [i \in DOMAIN l |-> l[i].id]

(***************************************************************************)
(* Score normalisation (rerank handler)                                    *)
(***************************************************************************)
MinOf(S) == CHOOSE x \in S : \A y \in S : x <= y
MaxOf(S) == CHOOSE x \in S : \A y \in S : x >= y
ScoresOf(l) == { l[i].score : i \in DOMAIN l }

\* Math.min(...scores, 0) and Math.max(...scores, 1)
MinScore(l) == MinOf(ScoresOf(l) \cup {0})
MaxScore(l) == MaxOf(ScoresOf(l) \cup {One})

normalizeBM25(score, minScore, maxScore) ==
    IF maxScore = minScore THEN RatOne ELSE Rat(score - minScore, maxScore - minScore)

normalizeVector(score, minScore, maxScore) ==
    IF maxScore = minScore THEN RatOne ELSE Rat(score - minScore, maxScore - minScore)

(***************************************************************************)
(* Union of the two lists: resultMap, a Map in insertion order             *)
(***************************************************************************)
NoRank == 0    \* null

PositionOf(m, id) ==
    IF \E i \in DOMAIN m : m[i].id = id THEN CHOOSE i \in DOMAIN m : m[i].id = id ELSE 0

\* bm25Results.forEach(...): one entry per lexical hit, in lexical order
ProcessBM25(bm25) ==
    [i \in DOMAIN bm25 |->
        [id |-> bm25[i].id,
         bm25Score |-> bm25[i].score,
         bm25Normalized |-> normalizeBM25(bm25[i].score, MinScore(bm25), MaxScore(bm25)),
         bm25Rank |-> i,
         vectorScore |-> 0,
         vectorNormalized |-> RatZero,
         vectorRank |-> NoRank,
         foundIn |-> "bm25"]]

\* one iteration of vectorResults.forEach(...)
MergeVectorDoc(m, vec, i) ==
    LET doc == vec[i]
        normalizedScore == normalizeVector(doc.score, MinScore(vec), MaxScore(vec))
        p == PositionOf(m, doc.id)
    IN  IF p # 0
        THEN [m EXCEPT ![p].vectorScore = doc.score,
                       ![p].vectorNormalized = normalizedScore,
                       ![p].vectorRank = i,
                       ![p].foundIn = "both"]
        ELSE Append(m, [id |-> doc.id,
                        bm25Score |-> 0,
                        bm25Normalized |-> RatZero,
                        bm25Rank |-> NoRank,
                        vectorScore |-> doc.score,
                        vectorNormalized |-> normalizedScore,
                        vectorRank |-> i,
                        foundIn |-> "vector"])

RECURSIVE MergeVectorFrom(_, _, _)
MergeVectorFrom(m, vec, i) ==
    IF i > Len(vec) THEN m ELSE MergeVectorFrom(MergeVectorDoc(m, vec, i), vec, i + 1)

\* Array.from(resultMap.values())
AllResults(bm25, vec) == MergeVectorFrom(ProcessBM25(bm25), vec, 1)

(***************************************************************************)
(* Fusion policies                                                         *)
(***************************************************************************)
RRF_K == 60

RrfScore(doc) ==
    LET bm25RRF == IF doc.bm25Rank # NoRank THEN Rat(1, RRF_K + doc.bm25Rank) ELSE RatZero
        vectorRRF == IF doc.vectorRank # NoRank THEN Rat(1, RRF_K + doc.vectorRank) ELSE RatZero
    IN  RatAdd(bm25RRF, vectorRRF)

WeightedScore(doc, bm25Weight, vectorWeight) ==
    RatAdd(RatMul(doc.bm25Normalized, bm25Weight), RatMul(doc.vectorNormalized, vectorWeight))

ReciprocalScore(doc, bm25Weight, vectorWeight) ==
    LET bm25Reciprocal ==
            IF doc.bm25Rank # NoRank THEN RatMul(Rat(1, doc.bm25Rank), bm25Weight) ELSE RatZero
        vectorReciprocal ==
            IF doc.vectorRank # NoRank THEN RatMul(Rat(1, doc.vectorRank), vectorWeight) ELSE RatZero
    IN  RatAdd(bm25Reciprocal, vectorReciprocal)

WithFused(doc, score) ==
    [id |-> doc.id, bm25Score |-> doc.bm25Score, bm25Normalized |-> doc.bm25Normalized,
     bm25Rank |-> doc.bm25Rank, vectorScore |-> doc.vectorScore,
     vectorNormalized |-> doc.vectorNormalized, vectorRank |-> doc.vectorRank,
     foundIn |-> doc.foundIn, fusedScore |-> score]

\* the if / else if chain over fusionMethod; an unknown method leaves fusedResults = []
ApplyFusion(all, fusionMethod, bm25Weight, vectorWeight) ==
    IF fusionMethod = "rrf"
    THEN [i \in DOMAIN all |-> WithFused(all[i], RrfScore(all[i]))]
    ELSE IF fusionMethod = "weighted"
    THEN [i \in DOMAIN all |-> WithFused(all[i], WeightedScore(all[i], bm25Weight, vectorWeight))]
    ELSE IF fusionMethod = "reciprocal"
    THEN [i \in DOMAIN all |-> WithFused(all[i], ReciprocalScore(all[i], bm25Weight, vectorWeight))]
    ELSE << >>

(***************************************************************************)
(* fusedResults.sort((a, b) => b.fusedScore - a.fusedScore)                *)
(* Array.prototype.sort is stable: elements that compare equal keep their  *)
(* order.                                                                  *)
(***************************************************************************)
\* mutant: the comparator's operands exchanged (a.fusedScore - b.fusedScore)
ComparesBeforeAscending(a, b) == RatLess(a.fusedScore, b.fusedScore)

\* mutant: the sort left out (no element is ever moved in front of another)
ComparesBeforeNever(a, b) == FALSE

\* the comparator is negative for (a, b): a sorts before b
ComparesBefore(a, b) == RatLess(b.fusedScore, a.fusedScore)

InsertStable(sorted, x) ==
    LET before == { j \in DOMAIN sorted : ComparesBefore(x, sorted[j]) }
        p == IF before = {} THEN Len(sorted) + 1 ELSE MinOf(before)
    IN  SubSeq(sorted, 1, p - 1) \o <<x>> \o SubSeq(sorted, p, Len(sorted))

RECURSIVE SortFrom(_, _, _)
SortFrom(sorted, s, i) ==
    IF i > Len(s) THEN sorted ELSE SortFrom(InsertStable(sorted, s[i]), s, i + 1)

SortByFusedScore(s) == SortFrom(<< >>, s, 1)

\* the whole of step 2: union, fusion, sort
Fuse(bm25, vec, fusionMethod, bm25Weight, vectorWeight) ==
    SortByFusedScore(ApplyFusion(AllResults(bm25, vec), fusionMethod, bm25Weight, vectorWeight))

\* Array.prototype.slice(0, end) for an integer end
Slice0(s, end) ==
    LET n == Len(s)
        e == IF end < 0 THEN (IF n + end < 0 THEN 0 ELSE n + end)
             ELSE (IF end > n THEN n ELSE end)
    IN  SubSeq(s, 1, e)

\* fusedResults.forEach((doc, index) => ...): ranking information
AddRanking(sorted) ==
    [i \in DOMAIN sorted |->
        LET doc == sorted[i]
            originalRank == IF doc.bm25Rank # NoRank THEN doc.bm25Rank
                            ELSE IF doc.vectorRank # NoRank THEN doc.vectorRank
                            ELSE i
        IN  doc @@ [newRank |-> i, originalRank |-> originalRank, rankChange |-> originalRank - i]]

(***************************************************************************)
(* POST /api/search/rerank                                                 *)
(***************************************************************************)
NoResponse == [status |-> 0, results |-> << >>, degraded |-> FALSE]
ErrorResponse(code) == [status |-> code, results |-> << >>, degraded |-> FALSE]

RerankInit ==
    /\ pc = "idle"
    /\ req = [query |-> FALSE, limit |-> 0, fusionMethod |-> "rrf",
              bm25Weight |-> RatZero, vectorWeight |-> RatZero]
    /\ conn = "none"
    /\ embedCalls = 0
    /\ embedFailures = 0
    /\ bm25Task = "idle"
    /\ vectorTask = "idle"
    /\ bm25Results = << >>
    /\ vectorResults = << >>
    /\ rerankStarted = FALSE
    /\ fusedResults = << >>
    /\ res = NoResponse

\* the request arrives; `if (!query) return res.status(400)`; otherwise the
\* handler creates its MongoClient and awaits connect()
Receive ==
    /\ pc = "idle"
    /\ \E q \in BOOLEAN, l \in Limits, m \in FusionMethods, w \in WeightPairs,
          f \in 0..MaxEmbedFailures :
        /\ req' = [query |-> q, limit |-> l, fusionMethod |-> m,
                   bm25Weight |-> w[1], vectorWeight |-> w[2]]
        /\ embedFailures' = f
        /\ IF ~q
           THEN pc' = "done" /\ res' = ErrorResponse(400)
           ELSE pc' = "connecting" /\ res' = res
    /\ UNCHANGED <<conn, embedCalls, bm25Task, vectorTask, bm25Results, vectorResults,
                   rerankStarted, fusedResults>>
    /\ UNCHANGED exceptRerank

\* the catch block: res.status(500); the connection is left as it is
Catch500 ==
    /\ pc' = "done"
    /\ res' = ErrorResponse(500)

\* connect() resolves; the handler posts the query to the embedding service
ConnectOk ==
    /\ pc = "connecting"
    /\ conn' = "open"
    /\ embedCalls' = embedCalls + 1
    /\ pc' = "embedding"
    /\ UNCHANGED <<req, embedFailures, bm25Task, vectorTask, bm25Results, vectorResults,
                   rerankStarted, fusedResults, res>>
    /\ UNCHANGED exceptRerank

ConnectFail ==
    /\ pc = "connecting"
    /\ Catch500
    /\ UNCHANGED <<req, conn, embedCalls, embedFailures, bm25Task, vectorTask, bm25Results,
                   vectorResults, rerankStarted, fusedResults>>
    /\ UNCHANGED exceptRerank

\* the embedding call settles.  A rejected post, or a body whose status is not
\* 200, throws; a good answer starts both aggregations inside Promise.all
EmbeddingFails == embedCalls <= embedFailures

EmbedSettle ==
    /\ pc = "embedding"
    /\ IF EmbeddingFails
       THEN /\ Catch500
            /\ UNCHANGED <<bm25Task, vectorTask>>
       ELSE /\ bm25Task' = "pending"
            /\ vectorTask' = "pending"
            /\ pc' = "searching"
            /\ res' = res
    /\ UNCHANGED <<req, conn, embedCalls, embedFailures, bm25Results, vectorResults,
                   rerankStarted, fusedResults>>
    /\ UNCHANGED exceptRerank

\* collection.aggregate(bm25Pipeline).toArray() settles
BM25Done ==
    /\ bm25Task = "pending"
    /\ \E l \in Rankings(Bm25Scores) : bm25Results' = l
    /\ bm25Task' = "ok"
    /\ UNCHANGED <<pc, req, conn, embedCalls, embedFailures, vectorTask, vectorResults,
                   rerankStarted, fusedResults, res>>
    /\ UNCHANGED exceptRerank

\* a rejection of either aggregation rejects Promise.all at once
BM25Fail ==
    /\ bm25Task = "pending"
    /\ bm25Task' = "failed"
    /\ IF pc = "searching" THEN Catch500 ELSE UNCHANGED <<pc, res>>
    /\ UNCHANGED <<req, conn, embedCalls, embedFailures, vectorTask, bm25Results,
                   vectorResults, rerankStarted, fusedResults>>
    /\ UNCHANGED exceptRerank

\* collection.aggregate(vectorPipeline).toArray() settles
VectorDone ==
    /\ vectorTask = "pending"
    /\ \E l \in Rankings(VectorScores) : vectorResults' = l
    /\ vectorTask' = "ok"
    /\ UNCHANGED <<pc, req, conn, embedCalls, embedFailures, bm25Task, bm25Results,
                   rerankStarted, fusedResults, res>>
    /\ UNCHANGED exceptRerank

VectorFail ==
    /\ vectorTask = "pending"
    /\ vectorTask' = "failed"
    /\ IF pc = "searching" THEN Catch500 ELSE UNCHANGED <<pc, res>>
    /\ UNCHANGED <<req, conn, embedCalls, embedFailures, bm25Task, bm25Results,
                   vectorResults, rerankStarted, fusedResults>>
    /\ UNCHANGED exceptRerank

\* mutant: Promise.race in place of Promise.all
SearchesRaced == bm25Task = "ok" \/ vectorTask = "ok"

\* Promise.all([...]) fulfils
SearchesJoined == bm25Task = "ok" /\ vectorTask = "ok"

\* step 2, from the join to `await mongoClient.close()`
JoinAndFuse ==
    /\ pc = "searching"
    /\ SearchesJoined
    /\ rerankStarted' = TRUE
    /\ fusedResults' = AddRanking(Fuse(bm25Results, vectorResults, req.fusionMethod,
                                       req.bm25Weight, req.vectorWeight))
    /\ pc' = "closing"
    /\ UNCHANGED <<req, conn, embedCalls, embedFailures, bm25Task, vectorTask, bm25Results,
                   vectorResults, res>>
    /\ UNCHANGED exceptRerank

\* mutant: the slice forgotten
AfterResultsUntruncated(fused, limit) == fused

\* afterResults = fusedResults.slice(0, limit)
AfterResults(fused, limit) == Slice0(fused, limit)

\* close() resolves and res.json({success: true, results: afterResults, ...})
CloseOk ==
    /\ pc = "closing"
    /\ conn' = "closed"
    /\ res' = [status |-> 200, results |-> AfterResults(fusedResults, req.limit),
               degraded |-> FALSE]
    /\ pc' = "done"
    /\ UNCHANGED <<req, embedCalls, embedFailures, bm25Task, vectorTask, bm25Results,
                   vectorResults, rerankStarted, fusedResults>>
    /\ UNCHANGED exceptRerank

CloseFail ==
    /\ pc = "closing"
    /\ Catch500
    /\ UNCHANGED <<req, conn, embedCalls, embedFailures, bm25Task, vectorTask, bm25Results,
                   vectorResults, rerankStarted, fusedResults>>
    /\ UNCHANGED exceptRerank

(***************************************************************************)
(* POST /api/search/hybrid: lexical search, then vector search, then the   *)
(* weighted combination of the normalised scores. The request's filters    *)
(* are left at their default {}.                                           *)
(***************************************************************************)
\* mutant: the largest score taken without the floor of 1 (Math.max(...scores, 0))
HybridRangeUnfloored(l) ==
    LET r == MaxOf(ScoresOf(l) \cup {0}) - MinOf(ScoresOf(l) \cup {0}) IN IF r = 0 THEN One ELSE r

\* bm25Min / vectorMin: Math.min(...scores, 0)
HybridMin(l) == MinOf(ScoresOf(l) \cup {0})

\* bm25Range / vectorRange: Math.max(...scores, 1) - Math.min(...scores, 0) || 1
HybridRange(l) ==
    LET r == MaxOf(ScoresOf(l) \cup {One}) - HybridMin(l) IN IF r = 0 THEN One ELSE r

\* bm25Results.forEach(...)
HybridAddBM25(bm25, bm25Weight) ==
    [i \in DOMAIN bm25 |->
        LET normalizedScore == Rat(bm25[i].score - HybridMin(bm25), HybridRange(bm25))
        IN  [id |-> bm25[i].id,
             bm25Score |-> bm25[i].score,
             bm25ScoreNormalized |-> normalizedScore,
             vectorScore |-> 0,
             vectorScoreNormalized |-> RatZero,
             hybridScore |-> RatMul(normalizedScore, bm25Weight),
             foundIn |-> "bm25"]]

\* one iteration of vectorResults.forEach(...)
HybridMergeVectorDoc(m, vec, i, vectorWeight) ==
    LET result == vec[i]
        normalizedScore == Rat(result.score - HybridMin(vec), HybridRange(vec))
        p == PositionOf(m, result.id)
    IN  IF p # 0
        THEN [m EXCEPT ![p].vectorScore = result.score,
                       ![p].vectorScoreNormalized = normalizedScore,
                       ![p].hybridScore = RatAdd(@, RatMul(normalizedScore, vectorWeight)),
                       ![p].foundIn = "both"]
        ELSE Append(m, [id |-> result.id,
                        bm25Score |-> 0,
                        bm25ScoreNormalized |-> RatZero,
                        vectorScore |-> result.score,
                        vectorScoreNormalized |-> normalizedScore,
                        hybridScore |-> RatMul(normalizedScore, vectorWeight),
                        foundIn |-> "vector"])

RECURSIVE HybridMergeVectorFrom(_, _, _, _)
HybridMergeVectorFrom(m, vec, i, vectorWeight) ==
    IF i > Len(vec) THEN m
    ELSE HybridMergeVectorFrom(HybridMergeVectorDoc(m, vec, i, vectorWeight), vec, i + 1,
                               vectorWeight)

\* combinedResults.sort((a, b) => b.hybridScore - a.hybridScore), a stable sort
HybridInsertStable(sorted, x) ==
    LET before == { j \in DOMAIN sorted : RatLess(sorted[j].hybridScore, x.hybridScore) }
        p == IF before = {} THEN Len(sorted) + 1 ELSE MinOf(before)
    IN  SubSeq(sorted, 1, p - 1) \o <<x>> \o SubSeq(sorted, p, Len(sorted))

RECURSIVE HybridSortFrom(_, _, _)
HybridSortFrom(sorted, s, i) ==
    IF i > Len(s) THEN sorted ELSE HybridSortFrom(HybridInsertStable(sorted, s[i]), s, i + 1)

\* Array.from(resultMap.values()) sorted by hybridScore
HybridCombine(bm25, vec, bm25Weight, vectorWeight) ==
    HybridSortFrom(<< >>,
                   HybridMergeVectorFrom(HybridAddBM25(bm25, bm25Weight), vec, 1, vectorWeight),
                   1)

\* searchLimit = parseInt(limit) * 3
searchLimit(limit) == limit * 3

\* what a pipeline ending in $limit: n can return
HybridRankings(scores, n) ==
    { l \in SeqsUpTo([id : Ids, score : scores], IF n < NumIds THEN n ELSE NumIds) :
        IsRanking(l) }

NoHybridRequest == [query |-> FALSE, limit |-> 0, bm25Weight |-> RatZero,
                    vectorWeight |-> RatZero]

HybridIdle ==
    /\ hpc = "idle"
    /\ hybridReq = NoHybridRequest
    /\ hybridBm25 = << >>
    /\ hybridVector = << >>
    /\ combinedResults = << >>
    /\ hybridRes = NoResponse

\* the request arrives; `if (!query) return res.status(400)`; otherwise the
\* handler connects and validates the two indexes
HybridReceive ==
    /\ hpc = "idle"
    /\ \E query \in BOOLEAN, limit \in Limits, w \in WeightPairs :
          /\ hybridReq' = [query |-> query, limit |-> limit, bm25Weight |-> w[1],
                           vectorWeight |-> w[2]]
          /\ IF query
             THEN hpc' = "validating" /\ hybridRes' = hybridRes
             ELSE hpc' = "done" /\ hybridRes' = ErrorResponse(400)
    /\ UNCHANGED <<hybridBm25, hybridVector, combinedResults>>
    /\ UNCHANGED exceptHybrid

\* both validations are ok; the lexical aggregate is started
HybridValidated ==
    /\ hpc = "validating"
    /\ hpc' = "bm25"
    /\ UNCHANGED <<hybridReq, hybridBm25, hybridVector, combinedResults, hybridRes>>
    /\ UNCHANGED exceptHybrid

\* a validation is not ok: close and res.status(400)
HybridInvalid ==
    /\ hpc = "validating"
    /\ hpc' = "done"
    /\ hybridRes' = ErrorResponse(400)
    /\ UNCHANGED <<hybridReq, hybridBm25, hybridVector, combinedResults>>
    /\ UNCHANGED exceptHybrid

\* the lexical aggregate resolves; the embedding call and the vector aggregate follow
HybridBM25Done ==
    /\ hpc = "bm25"
    /\ \E l \in HybridRankings(Bm25Scores, searchLimit(hybridReq.limit)) : hybridBm25' = l
    /\ hpc' = "vector"
    /\ UNCHANGED <<hybridReq, hybridVector, combinedResults, hybridRes>>
    /\ UNCHANGED exceptHybrid

\* the vector aggregate resolves: normalise, combine, sort, slice, close, respond
HybridVectorDone ==
    /\ hpc = "vector"
    /\ \E l \in HybridRankings(VectorScores, searchLimit(hybridReq.limit)) :
          LET combined == HybridCombine(hybridBm25, l, hybridReq.bm25Weight,
                                        hybridReq.vectorWeight)
          IN  /\ hybridVector' = l
              /\ combinedResults' = combined
              /\ hybridRes' = [status |-> 200, results |-> Slice0(combined, hybridReq.limit),
                               degraded |-> FALSE]
    /\ hpc' = "done"
    /\ UNCHANGED <<hybridReq, hybridBm25>>
    /\ UNCHANGED exceptHybrid

\* an awaited call rejects: the catch block, res.status(500)
HybridCatch ==
    /\ hpc \in {"validating", "bm25", "vector"}
    /\ hpc' = "done"
    /\ hybridRes' = ErrorResponse(500)
    /\ UNCHANGED <<hybridReq, hybridBm25, hybridVector, combinedResults>>
    /\ UNCHANGED exceptHybrid

(***************************************************************************)
(* handleLlmRagTest: the client-side pipeline orchestrator                 *)
(***************************************************************************)
RerankLimit == 10        \* limit sent to /api/search/rerank
RerankFallbackCap == 10  \* (searchData.results || []).slice(0, 10)
DedupMinResults == 5     \* if (finalResults.length > 5)
TopResultsCap == 10      \* finalResults.slice(0, 10)
SummaryCap == 5          \* topResults.slice(0, 5)

Min(a, b) == IF a < b THEN a ELSE b

\* mutant: the deduplication checkpoint below the reranking one
CheckpointMisordered(stage) ==
    CASE stage = "input" -> 5
      [] stage = "preprocess" -> 10
      [] stage = "search" -> 20
      [] stage = "rerank" -> 35
      [] stage = "dedup" -> 30
      [] stage = "summarize" -> 55
      [] stage = "prompt" -> 65
      [] stage = "generate" -> 75
      [] stage = "validate" -> 90
      [] stage = "done" -> 100

\* the argument of each setGenerationProgress call of the try block
Checkpoint(stage) ==
    CASE stage = "input" -> 5
      [] stage = "preprocess" -> 10
      [] stage = "search" -> 20
      [] stage = "rerank" -> 35
      [] stage = "dedup" -> 45
      [] stage = "summarize" -> 55
      [] stage = "prompt" -> 65
      [] stage = "generate" -> 75
      [] stage = "validate" -> 90
      [] stage = "done" -> 100

NullResult == [kind |-> "null"]
ErrorResult(stage) == [kind |-> "error", message |-> stage]

OrchIdle ==
    /\ opc = "idle"
    /\ generationProgress = 0
    /\ llmRagTesting = FALSE
    /\ llmRagResult = NullResult
    /\ progressLog = << >>
    /\ stageLog = << >>
    /\ searchResults = 0
    /\ finalResults = 0
    /\ topResults = 0
    /\ finalQuery = "original"
    /\ topResultsForSummary = 0
    /\ aiResponse = << >>

\* setGenerationProgress(v) for each v of vs, in order
Emit(vs) ==
    /\ progressLog' = progressLog \o vs
    /\ generationProgress' = vs[Len(vs)]

\* mutant: a catch block that leaves the progress where the run stopped
AbortWithoutReset(stage, emitted) ==
    /\ llmRagResult' = ErrorResult(stage)
    /\ IF emitted = << >> THEN UNCHANGED <<progressLog, generationProgress>> ELSE Emit(emitted)
    /\ llmRagTesting' = FALSE
    /\ opc' = "done"

\* a throw inside the try block: catch, then finally
Abort(stage, emitted) ==
    /\ llmRagResult' = ErrorResult(stage)
    /\ Emit(emitted \o <<0>>)
    /\ llmRagTesting' = FALSE
    /\ opc' = "done"

Outcomes == {"ok", "notok", "reject"}

\* the click: everything up to the first await
StartRun ==
    /\ ~llmRagTesting
    /\ opc \in {"idle", "done"}
    /\ stageLog' = << >>
    /\ searchResults' = 0 /\ finalResults' = 0 /\ topResults' = 0
    /\ finalQuery' = "original" /\ topResultsForSummary' = 0 /\ aiResponse' = << >>
    /\ \E emptyQuery \in BOOLEAN :
          IF emptyQuery
          THEN /\ llmRagResult' = ErrorResult("input")
               /\ progressLog' = <<0, Checkpoint("input"), 0>>
               /\ generationProgress' = 0
               /\ llmRagTesting' = FALSE
               /\ opc' = "done"
          ELSE /\ llmRagResult' = NullResult
               /\ progressLog' = <<0, Checkpoint("input"), Checkpoint("preprocess")>>
               /\ generationProgress' = Checkpoint("preprocess")
               /\ llmRagTesting' = TRUE
               /\ opc' = "preprocess"
    /\ UNCHANGED exceptOrch

\* /api/search/preprocess settles; a non-OK answer keeps the original query
PreprocessSettle ==
    /\ opc = "preprocess"
    /\ \E o \in Outcomes, processedQuery \in BOOLEAN :
        /\ stageLog' = Append(stageLog, <<"preprocess", o>>)
        /\ o # "ok" => ~processedQuery
        /\ IF o = "reject"
           THEN Abort("preprocess", << >>) /\ UNCHANGED finalQuery
           ELSE \* finalQuery = preprocessingData.processedQuery || testQuery
                /\ finalQuery' = IF o = "ok" /\ processedQuery THEN "processed" ELSE "original"
                /\ Emit(<<Checkpoint("search")>>)
                /\ opc' = "search"
                /\ UNCHANGED <<llmRagTesting, llmRagResult>>
    /\ UNCHANGED <<searchResults, finalResults, topResults, topResultsForSummary, aiResponse>>
    /\ UNCHANGED exceptOrch

\* /api/search/hybrid settles; a non-OK answer throws
SearchSettle ==
    /\ opc = "search"
    /\ \E o \in Outcomes, n \in 0..MaxHits :
        /\ stageLog' = Append(stageLog, <<"search", o>>)
        /\ IF o = "ok"
           THEN /\ searchResults' = n
                /\ Emit(<<Checkpoint("rerank")>>)
                /\ opc' = "rerank"
                /\ UNCHANGED <<llmRagTesting, llmRagResult>>
           ELSE /\ n = 0
                /\ Abort("search", << >>)
                /\ UNCHANGED searchResults
    /\ UNCHANGED <<finalResults, topResults, finalQuery, topResultsForSummary, aiResponse>>
    /\ UNCHANGED exceptOrch

\* from `const topResults = finalResults.slice(0, 10)` to the summarize fetch
AfterDedup(final, emitted) ==
    LET top == Min(final, TopResultsCap)
    IN  /\ finalResults' = final
        /\ topResults' = top
        /\ IF top = 0
           THEN Abort("dedup", emitted) /\ UNCHANGED topResultsForSummary
           ELSE /\ Emit(emitted \o <<Checkpoint("summarize")>>)
                /\ topResultsForSummary' = Min(top, SummaryCap)
                /\ opc' = "summarize"
                /\ UNCHANGED <<llmRagTesting, llmRagResult>>

\* mutant: if (finalResults.length >= 5)
NeedsDedupFromFive(n) == n >= DedupMinResults

\* if (finalResults.length > 5)
NeedsDedup(n) == n > DedupMinResults

\* /api/search/rerank settles; a non-OK answer falls back to the first 10 hybrid
\* results; more than 5 results go to /api/search/deduplicate
RerankSettle ==
    /\ opc = "rerank"
    /\ \E o \in Outcomes, k \in 0..RerankLimit :
        /\ stageLog' = Append(stageLog, <<"rerank", o>>)
        /\ o # "ok" => k = 0
        /\ IF o = "reject"
           THEN /\ Abort("rerank", << >>)
                /\ UNCHANGED <<finalResults, topResults, topResultsForSummary>>
           ELSE LET reranked == IF o = "ok" THEN k ELSE Min(searchResults, RerankFallbackCap)
                IN  IF NeedsDedup(reranked)
                    THEN /\ finalResults' = reranked
                         /\ Emit(<<Checkpoint("dedup")>>)
                         /\ opc' = "dedup"
                         /\ UNCHANGED <<llmRagTesting, llmRagResult, topResults,
                                        topResultsForSummary>>
                    ELSE AfterDedup(reranked, <<Checkpoint("dedup")>>)
    /\ UNCHANGED <<searchResults, finalQuery, aiResponse>>
    /\ UNCHANGED exceptOrch

\* /api/search/deduplicate settles; a non-OK answer keeps the list as it is, and
\* so does an OK answer without `deduplicated` (kept = 0 here); the endpoint
\* always keeps the first item of a non-empty list
DedupSettle ==
    /\ opc = "dedup"
    /\ \E o \in Outcomes, kept \in 0..finalResults :
        /\ stageLog' = Append(stageLog, <<"dedup", o>>)
        /\ o # "ok" => kept = 0
        /\ IF o = "reject"
           THEN /\ Abort("dedup", << >>)
                /\ UNCHANGED <<finalResults, topResults, topResultsForSummary>>
           ELSE \* dedupData.deduplicated || finalResults
                AfterDedup(IF o = "ok" /\ kept > 0 THEN kept ELSE finalResults, << >>)
    /\ UNCHANGED <<searchResults, finalQuery, aiResponse>>
    /\ UNCHANGED exceptOrch

\* /api/search/summarize settles; a non-OK answer throws
SummarizeSettle ==
    /\ opc = "summarize"
    /\ \E o \in Outcomes :
        /\ stageLog' = Append(stageLog, <<"summarize", o>>)
        /\ IF o = "ok"
           THEN /\ Emit(<<Checkpoint("prompt"), Checkpoint("generate")>>)
                /\ opc' = "generate"
                /\ UNCHANGED <<llmRagTesting, llmRagResult>>
           ELSE Abort("summarize", << >>)
    /\ UNCHANGED <<searchResults, finalResults, topResults, finalQuery, topResultsForSummary,
                   aiResponse>>
    /\ UNCHANGED exceptOrch

(***************************************************************************)
(* The completion text, /api/test-prompt's answer and step 9 (validation). *)
(* A text is a sequence of pieces: the opening fence ```json, the fence    *)
(* ```, a complete JSON object (it ends with }), a piece of text that is   *)
(* cut short or is prose (it does not end with }), and white space.        *)
(***************************************************************************)
MaxTextLen == 3
Tokens == {"fenceJson", "fence", "object", "cut", "ws"}

RECURSIVE trimStart(_)
trimStart(t) == IF t # << >> /\ Head(t) = "ws" THEN trimStart(Tail(t)) ELSE t

RECURSIVE trimEnd(_)
trimEnd(t) ==
    IF t # << >> /\ t[Len(t)] = "ws" THEN trimEnd(SubSeq(t, 1, Len(t) - 1)) ELSE t

\* String.prototype.trim
trim(t) == trimEnd(trimStart(t))

\* JSON.parse(t) returns (it allows white space around the value)
JSONParses(t) == trim(t) = <<"object">>

\* rawText.endsWith('}')
endsWithBrace(t) == t # << >> /\ t[Len(t)] = "object"

\* the characters ``` begin both kinds of fence
IsFence(tok) == tok \in {"fence", "fenceJson"}

\* mutant: the code block is never recognised, the text is parsed with its fences
jsonMatchNone(t) == [found |-> FALSE, group |-> << >>]

\* rawText.match(/```json\s*([\s\S]*?)\s*```/): the first ```json that has a
\* ``` after it, and the text between them without the white space at its ends
jsonMatch(t) ==
    LET opens == { i \in DOMAIN t : t[i] = "fenceJson" /\ \E k \in DOMAIN t : k > i /\ IsFence(t[k]) }
    IN  IF opens = {} THEN [found |-> FALSE, group |-> << >>]
        ELSE LET i == MinOf(opens)
                 k == MinOf({ j \in DOMAIN t : j > i /\ IsFence(t[j]) })
             IN  [found |-> TRUE, group |-> trim(SubSeq(t, i + 1, k - 1))]

\* /api/test-prompt: parsedResponse = JSON.parse(aiResponse), or {raw: aiResponse}
testPromptResponse(text) ==
    IF JSONParses(text) THEN [kind |-> "object"] ELSE [kind |-> "raw", raw |-> text]

\* step 9: response is generatedData.response, complete tells whether the
\* object has every required field; gives validatedResponse and validationErrors
Validate(response, complete) ==
    LET rawText == IF response.kind = "raw" /\ response.raw # << >> THEN response.raw ELSE << >>
        hasRaw == rawText # << >>
        m == jsonMatch(rawText)
        extracted == IF m.found THEN trim(m.group) ELSE rawText
        truncated == hasRaw /\ ~endsWithBrace(extracted)
        parsed == hasRaw /\ JSONParses(extracted)
        isObject == response.kind = "object" \/ parsed
        errors == (IF truncated THEN <<"truncated">> ELSE << >>)
                  \o (IF hasRaw /\ ~parsed THEN <<"parse">> ELSE << >>)
                  \o (IF isObject /\ complete THEN << >> ELSE <<"structure">>)
    IN  [response |-> IF isObject THEN "object" ELSE "raw",
         validationErrors |-> errors]

\* /api/test-prompt settles; step 9 only collects validationErrors
GenerateSettle ==
    /\ opc = "generate"
    /\ \E o \in Outcomes, text \in SeqsUpTo(Tokens, MaxTextLen), complete \in BOOLEAN :
        /\ stageLog' = Append(stageLog, <<"generate", o>>)
        /\ o # "ok" => text = << >> /\ ~complete
        /\ LET v == Validate(testPromptResponse(text), complete)
           IN  /\ complete => v.response = "object"
               /\ aiResponse' = text
               /\ IF o = "ok"
                  THEN /\ Emit(<<Checkpoint("validate"), Checkpoint("done")>>)
                       /\ llmRagResult' = [kind |-> "success",
                                           topResults |-> topResults,
                                           ragSummary |-> "summary",
                                           response |-> v.response,
                                           validationErrors |-> v.validationErrors,
                                           validationPassed |-> v.validationErrors = << >>]
                       /\ llmRagTesting' = FALSE
                       /\ opc' = "done"
                  ELSE Abort("generate", << >>)
    /\ UNCHANGED <<searchResults, finalResults, topResults, finalQuery, topResultsForSummary>>
    /\ UNCHANGED exceptOrch

(***************************************************************************)
(* POST /api/search/deduplicate                                            *)
(* A title is the sequence of its words, i.e. the string split at white    *)
(* space; the empty sequence is the empty string, which is also what a     *)
(* missing title becomes (`result.title?.toLowerCase() || ''`).  The word  *)
(* "A" is the upper-case spelling of "a".                                  *)
(***************************************************************************)
MaxResults == 3    \* longest results array a caller sends

Titles == { << >>, <<"a">>, <<"A">>, <<"a", "b">>, <<"b", "a">>, <<"a", "c">>,
            <<"a", "b", "c">> }
Contents == {"x", "y"}    \* the rest of a result: its document text
Thresholds == { Rat(0, 1), Rat(1, 2), Rat(85, 100), Rat(1, 1) }    \* 0.85 is the default

\* the arrays of length n a caller can send: result i has id i
ResultLists(n) ==
    { [i \in 1..n |-> [id |-> i, title |-> f[i][1], content |-> f[i][2]]] :
        f \in [1..n -> Titles \X Contents] }

\* String.prototype.toLowerCase
toLowerCase(text) == [i \in DOMAIN text |-> IF text[i] = "A" THEN "a" ELSE text[i]]

\* new Set(text.toLowerCase().split(/\s+/)); ''.split(/\s+/) is ['']
WordSet(text) ==
    IF text = << >> THEN {""} ELSE { toLowerCase(text)[i] : i \in DOMAIN text }

\* Jaccard similarity of the two word sets
calculateTextSimilarity(text1, text2) ==
    LET words1 == WordSet(text1)
        words2 == WordSet(text2)
        intersection == words1 \cap words2
        union == words1 \cup words2
    IN  Rat(Cardinality(intersection), Cardinality(union))

\* mutant: similarity > threshold
ReachesThresholdStrictly(similarity, threshold) == RatLess(threshold, similarity)

\* similarity >= threshold
ReachesThreshold(similarity, threshold) == RatLeq(threshold, similarity)

\* seenTitles.set(key, value) on a Map kept as its entries in insertion order: an
\* existing key keeps its place and gets the new value
MapSet(m, key, value) ==
    IF \E i \in DOMAIN m : m[i].key = key
    THEN [m EXCEPT ![CHOOSE i \in DOMAIN m : m[i].key = key].value = value]
    ELSE Append(m, [key |-> key, value |-> value])

Collisions(seenTitles, title, threshold) ==
    { i \in DOMAIN seenTitles :
        ReachesThreshold(calculateTextSimilarity(title, seenTitles[i].key), threshold) }

\* mutant: the loop over seenTitles.entries() without its `break`: the last
\* colliding entry wins
LastCollision(seenTitles, title, threshold) ==
    IF Collisions(seenTitles, title, threshold) = {} THEN 0
    ELSE MaxOf(Collisions(seenTitles, title, threshold))

\* the inner loop over seenTitles.entries(): the first entry whose similarity
\* reaches the threshold, 0 when the loop ends without a break
FirstCollision(seenTitles, title, threshold) ==
    IF Collisions(seenTitles, title, threshold) = {} THEN 0
    ELSE MinOf(Collisions(seenTitles, title, threshold))

\* one iteration of `for (const result of results)`; the `similarity` string of a
\* duplicate (similarity.toFixed(3)) is left out of the record
DedupStep(acc, result, threshold) ==
    LET title == toLowerCase(result.title)
        p == FirstCollision(acc.seenTitles, title, threshold)
    IN  IF p # 0
        THEN [acc EXCEPT !.duplicates =
                 Append(@, [id |-> result.id, title |-> result.title,
                            content |-> result.content,
                            duplicateOf |-> acc.seenTitles[p].value.id])]
        ELSE [acc EXCEPT !.deduplicated = Append(@, result),
                         !.seenTitles = MapSet(@, title, result)]

RECURSIVE DedupFrom(_, _, _, _)
DedupFrom(acc, results, threshold, i) ==
    IF i > Len(results) THEN acc
    ELSE DedupFrom(DedupStep(acc, results[i], threshold), results, threshold, i + 1)

Deduplicate(results, threshold) ==
    DedupFrom([deduplicated |-> << >>, duplicates |-> << >>, seenTitles |-> << >>],
              results, threshold, 1)

NoDedupResponse == [status |-> 0, deduplicated |-> << >>, duplicates |-> << >>]

DedupIdle ==
    /\ dpc = "idle"
    /\ dedupReq = [isArray |-> FALSE, results |-> << >>, threshold |-> Rat(85, 100)]
    /\ dedupRes = NoDedupResponse

\* if (!results || !Array.isArray(results)) return res.status(400)
DedupReject ==
    /\ dpc = "idle"
    /\ \E t \in Thresholds :
          dedupReq' = [isArray |-> FALSE, results |-> << >>, threshold |-> t]
    /\ dedupRes' = [status |-> 400, deduplicated |-> << >>, duplicates |-> << >>]
    /\ dpc' = "done"
    /\ UNCHANGED exceptDedup

\* the handler has no await: the whole walk and res.json(...) are one step
DedupRespond ==
    /\ dpc = "idle"
    /\ \E n \in 0..MaxResults, t \in Thresholds : \E results \in ResultLists(n) :
          /\ dedupReq' = [isArray |-> TRUE, results |-> results, threshold |-> t]
          /\ dedupRes' = [status |-> 200,
                          deduplicated |-> Deduplicate(results, t).deduplicated,
                          duplicates |-> Deduplicate(results, t).duplicates]
    /\ dpc' = "done"
    /\ UNCHANGED exceptDedup

(***************************************************************************)
(* Job registry, /api/create-embeddings, processEmbeddings, the sweep      *)
(* Node runs every callback to completion, so a step is the code from one  *)
(* event (request, child exit, timer) to the next await.  Time is counted  *)
(* in sweep periods of SweepMinutes.                                       *)
(***************************************************************************)
MaxJobs == 1    \* jobs created in one execution
MaxNow == 7     \* last clock value explored

TtlMinutes == 60      \* 60 * 60 * 1000 ms
SweepMinutes == 10    \* 10 * 60 * 1000 ms
TTL == TtlMinutes \div SweepMinutes

JobIds == 1..MaxJobs
FileLists == { <<"a.json">>, <<"a.json", "b.json">> }
NoTime == -1    \* no endTime yet

\* the record createJob stores
createJob(jobId, files, t) ==
    [id |-> jobId, files |-> files, status |-> "in-progress", progress |-> 0,
     total |-> Len(files), results |-> << >>, startTime |-> t, currentFile |-> "null",
     endTime |-> NoTime]

\* mutant: the fields of one update applied in two steps, `results` in the later one
ObjectAssignWithoutResults(job, updates) ==
    [f \in DOMAIN job |->
        IF f \in DOMAIN updates /\ f # "results" THEN updates[f] ELSE job[f]]

\* Object.assign(job, updates)
ObjectAssign(job, updates) ==
    [f \in DOMAIN job |-> IF f \in DOMAIN updates THEN updates[f] ELSE job[f]]

\* mutant: updateJob that stores the updates under an id it does not find
updateJobUpsert(js, jobId, updates) ==
    IF jobId \in DOMAIN js THEN [js EXCEPT ![jobId] = ObjectAssign(@, updates)]
    ELSE (jobId :> updates) @@ js

\* updateJob(jobId, updates) on the registry js: nothing when the id is absent
updateJob(js, jobId, updates) ==
    IF jobId \in DOMAIN js THEN [js EXCEPT ![jobId] = ObjectAssign(@, updates)] ELSE js

NoJobResponse == [kind |-> "none", status |-> 0, jobId |-> 0, body |-> << >>]

JobsIdle ==
    /\ jobs = << >>
    /\ now = 0
    /\ nextJob = 0
    /\ worker = << >>
    /\ jobRes = NoJobResponse

\* POST /api/create-embeddings answered without a job: no files (400), the
\* collection validation fails (400) or throws (500)
CreateEmbeddingsReject ==
    /\ \E status \in {400, 500} :
          jobRes' = [kind |-> "create", status |-> status, jobId |-> 0, body |-> << >>]
    /\ UNCHANGED <<jobs, now, nextJob, worker>>
    /\ UNCHANGED exceptJobs

\* POST /api/create-embeddings after the validation: createJob(files), then
\* processEmbeddings runs up to its first await (currentFile of the first file,
\* child spawned), then res.json({success: true, jobId})
CreateEmbeddings ==
    /\ nextJob < MaxJobs
    /\ \E files \in FileLists :
          LET jobId == nextJob + 1
              created == (jobId :> createJob(jobId, files, now)) @@ jobs
          IN  /\ jobs' = updateJob(created, jobId, [currentFile |-> files[1]])
              /\ worker' = (jobId :> [files |-> files, i |-> 1, results |-> << >>,
                                        orphaned |-> FALSE]) @@ worker
              /\ nextJob' = jobId
              /\ jobRes' = [kind |-> "create", status |-> 200, jobId |-> jobId,
                            body |-> << >>]
    /\ UNCHANGED now
    /\ UNCHANGED exceptJobs

\* mutant: progress taken before the push of the file's result
ProgressBeforePush(results) == Len(results) - 1

\* progress: results.length
ProgressAfter(results) == Len(results)

\* mutant: a job with a failed file is marked failed
FinalStatusByResults(results) ==
    IF \E i \in DOMAIN results : results[i].status = "failed" THEN "failed" ELSE "completed"

\* status: 'completed', whatever the per-file results are
FinalStatus(results) == "completed"

\* child.on('close') of the running file of job j, and the worker up to its next
\* await or its end: the per-file result is pushed, progress and results are
\* updated, then either the next file starts or the job is marked completed.
\* `orphaned` records that an update of this worker found no record.
ChildClose(j) ==
    /\ j \in DOMAIN worker
    /\ worker[j].i <= Len(worker[j].files)
    /\ \E code \in {0, 1} :
          LET w == worker[j]
              results == Append(w.results,
                                [file |-> w.files[w.i],
                                 status |-> IF code = 0 THEN "completed" ELSE "failed"])
              progressed == updateJob(jobs, j, [progress |-> ProgressAfter(results),
                                                results |-> results])
          IN  /\ worker' = [worker EXCEPT ![j].results = results, ![j].i = w.i + 1,
                                          ![j].orphaned = @ \/ j \notin DOMAIN jobs]
              /\ jobs' = IF w.i < Len(w.files)
                         THEN updateJob(progressed, j, [currentFile |-> w.files[w.i + 1]])
                         ELSE updateJob(progressed, j, [status |-> FinalStatus(results),
                                                        endTime |-> now,
                                                        results |-> results])
    /\ jobRes' = NoJobResponse
    /\ UNCHANGED <<now, nextJob>>
    /\ UNCHANGED exceptJobs

\* mutant: the comparison of the sweep turned round
ExpiredInverted(job, t) == job.startTime > t - TTL

\* new Date(job.startTime).getTime() < oneHourAgo, at time t
Expired(job, t) == job.startTime < t - TTL

\* the setInterval callback: jobs.delete for every expired job
Sweep ==
    /\ jobs' = [j \in { k \in DOMAIN jobs : ~Expired(jobs[k], now) } |-> jobs[j]]
    /\ jobRes' = NoJobResponse
    /\ UNCHANGED <<now, nextJob, worker>>
    /\ UNCHANGED exceptJobs

\* a sweep period passes
Advance ==
    /\ now < MaxNow
    /\ now' = now + 1
    /\ jobRes' = NoJobResponse
    /\ UNCHANGED <<jobs, nextJob, worker>>
    /\ UNCHANGED exceptJobs

\* GET /api/jobs/:jobId
GetJob(jobId) ==
    /\ jobRes' = IF jobId \in DOMAIN jobs
                 THEN [kind |-> "get", status |-> 200, jobId |-> jobId,
                       body |-> <<jobs[jobId]>>]
                 ELSE [kind |-> "get", status |-> 404, jobId |-> jobId, body |-> << >>]
    /\ UNCHANGED <<jobs, now, nextJob, worker>>
    /\ UNCHANGED exceptJobs

RECURSIVE ValuesFrom(_, _)
\* Array.from(jobs.values()) from id j on: ids are handed out in insertion order
ValuesFrom(js, j) ==
    IF j > MaxJobs THEN << >>
    ELSE (IF j \in DOMAIN js THEN <<js[j]>> ELSE << >>) \o ValuesFrom(js, j + 1)

\* GET /api/jobs/active
ListActive ==
    /\ jobRes' = [kind |-> "list", status |-> 200, jobId |-> 0,
                  body |-> SelectSeq(ValuesFrom(jobs, 1),
                                     LAMBDA job : job.status = "in-progress")]
    /\ UNCHANGED <<jobs, now, nextJob, worker>>
    /\ UNCHANGED exceptJobs

(***************************************************************************)
(* Bulk embedding loader: create-embeddings-batch.js                       *)
(***************************************************************************)
BATCH_SIZE == 100
CONCURRENT_LIMIT == 5
MONGODB_BATCH_SIZE == 200
maxRetries == 3
BaseWaitMs == 1000
MaxWaitMs == 10000

MaxTestcases == 501    \* largest input file: six batches, two groups

TestcaseCounts == {0, 1, BATCH_SIZE, BATCH_SIZE + 1, MaxTestcases}

\* the sizes of testcases.slice(i, i + BATCH_SIZE) for i = 0, BATCH_SIZE, ...
Batches(n) ==
    [b \in 1..((n + BATCH_SIZE - 1) \div BATCH_SIZE) |->
        Min(BATCH_SIZE, n - (b - 1) * BATCH_SIZE)]

BatchNumbers == DOMAIN Batches(MaxTestcases)

\* the batch numbers of batches.slice(i, i + CONCURRENT_LIMIT)
GroupOf(i, totalBatches) == { b \in 1..totalBatches : i < b /\ b <= i + CONCURRENT_LIMIT }

NewCall(size) ==
    [batchSize |-> size, phase |-> "pending", attempt |-> 0, apiCalls |-> 0, waits |-> << >>]

\* mutant: one more turn of the retry loop
InLoopOnceMore(attempt) == attempt <= maxRetries + 1

\* for (let attempt = 1; attempt <= maxRetries; attempt++)
InLoop(attempt) == attempt <= maxRetries

\* if (attempt < maxRetries): the catch block waits before the next attempt
WaitsBeforeRetry(attempt) == attempt < maxRetries

\* Math.min(1000 * Math.pow(2, attempt), 10000)
WaitTime(attempt) == Min(BaseWaitMs * 2 ^ attempt, MaxWaitMs)

\* attempt++ and the loop test: the next axios.post, or the final failure
NextAttempt(c) ==
    IF InLoop(c.attempt + 1)
    THEN [c EXCEPT !.attempt = @ + 1, !.phase = "calling", !.apiCalls = @ + 1]
    ELSE [c EXCEPT !.attempt = @ + 1, !.phase = "failed"]

\* concurrentBatches.map(batch => generateBatchEmbeddings(...)): every call of
\* the group enters its loop and posts its first request
StartGroup(cs, i) ==
    [b \in DOMAIN cs |-> IF b \in GroupOf(i, Len(cs)) THEN NextAttempt(cs[b]) ELSE cs[b]]

NoTotals == [processedCount |-> 0, totalInserted |-> 0, totalFailed |-> 0]

BatchIdle ==
    /\ bpc = "idle"
    /\ testcases = 0
    /\ groupStart = 0
    /\ calls = << >>
    /\ resultIdx = 0
    /\ insertFrom = 0
    /\ totals = NoTotals

\* main() from the creation of the batches to the first await of the group loop
LoaderStart ==
    /\ bpc = "idle"
    /\ \E n \in TestcaseCounts :
          LET cs == [b \in DOMAIN Batches(n) |-> NewCall(Batches(n)[b])]
          IN  /\ testcases' = n
              /\ calls' = StartGroup(cs, 0)
              /\ bpc' = IF cs = << >> THEN "done" ELSE "embedding"
    /\ UNCHANGED <<groupStart, resultIdx, insertFrom, totals>>
    /\ UNCHANGED exceptBatch

\* the axios.post of batch b settles: success returns from the call; an error
\* goes to the catch block
CallSettle(b) ==
    /\ bpc = "embedding"
    /\ b \in DOMAIN calls
    /\ calls[b].phase = "calling"
    /\ \E ok \in BOOLEAN :
          calls' = [calls EXCEPT ![b] =
                       IF ok THEN [@ EXCEPT !.phase = "success"]
                       ELSE IF WaitsBeforeRetry(@.attempt)
                       THEN [@ EXCEPT !.phase = "waiting",
                                      !.waits = Append(@, WaitTime(calls[b].attempt))]
                       ELSE NextAttempt(@)]
    /\ UNCHANGED <<bpc, testcases, groupStart, resultIdx, insertFrom, totals>>
    /\ UNCHANGED exceptBatch

\* the setTimeout of the catch block fires
RetryTimer(b) ==
    /\ bpc = "embedding"
    /\ b \in DOMAIN calls
    /\ calls[b].phase = "waiting"
    /\ calls' = [calls EXCEPT ![b] = NextAttempt(@)]
    /\ UNCHANGED <<bpc, testcases, groupStart, resultIdx, insertFrom, totals>>
    /\ UNCHANGED exceptBatch

RECURSIVE ProcessFromUncounted(_, _, _, _)
\* mutant: a failed batch is not added to totalFailed
ProcessFromUncounted(cs, b, last, t) ==
    IF b > last THEN [next |-> 0, totals |-> t]
    ELSE IF cs[b].phase = "success"
    THEN [next |-> b,
          totals |-> [t EXCEPT !.processedCount = @ + cs[b].batchSize]]
    ELSE ProcessFromUncounted(cs, b + 1, last,
                              [t EXCEPT !.processedCount = @ + cs[b].batchSize])

RECURSIVE ProcessFrom(_, _, _, _)
\* `for (const batchResult of batchResults)` from batch b to batch last, up to
\* the next await: a failed batch is counted at once, a successful one is
\* counted as processed and its insertion awaited (next is its batch number)
ProcessFrom(cs, b, last, t) ==
    IF b > last THEN [next |-> 0, totals |-> t]
    ELSE IF cs[b].phase = "success"
    THEN [next |-> b,
          totals |-> [t EXCEPT !.processedCount = @ + cs[b].batchSize]]
    ELSE ProcessFrom(cs, b + 1, last,
                     [t EXCEPT !.processedCount = @ + cs[b].batchSize,
                               !.totalFailed = @ + cs[b].batchSize])

LastOfGroup == Min(groupStart + CONCURRENT_LIMIT, Len(calls))

\* the results of the group from batch b on, then the end of the loop body
Continue(b, t) ==
    LET r == ProcessFrom(calls, b, LastOfGroup, t)
    IN  /\ totals' = r.totals
        /\ resultIdx' = r.next
        /\ insertFrom' = 0
        /\ bpc' = IF r.next # 0 THEN "inserting"
                  ELSE IF groupStart + CONCURRENT_LIMIT < Len(calls) THEN "delay"
                  ELSE "done"

\* mutant: Promise.any in place of Promise.allSettled
GroupSettledAny ==
    \E b \in GroupOf(groupStart, Len(calls)) : calls[b].phase \in {"success", "failed"}

\* every promise of batchPromises has settled
GroupSettled ==
    \A b \in GroupOf(groupStart, Len(calls)) : calls[b].phase \in {"success", "failed"}

\* Promise.allSettled(batchPromises) resolves
GroupJoin ==
    /\ bpc = "embedding"
    /\ GroupSettled
    /\ Continue(groupStart + 1, totals)
    /\ UNCHANGED <<testcases, groupStart, calls>>
    /\ UNCHANGED exceptBatch

\* insertTestcasesBatch of the awaited sub-batch settles: insertMany inserted
\* every document, or threw and the whole sub-batch counts as failed
InsertSettle ==
    /\ bpc = "inserting"
    /\ \E ok \in BOOLEAN :
          LET size == calls[resultIdx].batchSize
              subBatch == Min(MONGODB_BATCH_SIZE, size - insertFrom)
              t == [totals EXCEPT !.totalInserted = @ + (IF ok THEN subBatch ELSE 0),
                                  !.totalFailed = @ + (IF ok THEN 0 ELSE subBatch)]
          IN  IF insertFrom + MONGODB_BATCH_SIZE < size
              THEN /\ insertFrom' = insertFrom + MONGODB_BATCH_SIZE
                   /\ totals' = t
                   /\ UNCHANGED <<bpc, resultIdx>>
              ELSE Continue(resultIdx + 1, t)
    /\ UNCHANGED <<testcases, groupStart, calls>>
    /\ UNCHANGED exceptBatch

\* the delay between two groups ends: the next group starts
DelayTimer ==
    /\ bpc = "delay"
    /\ groupStart' = groupStart + CONCURRENT_LIMIT
    /\ calls' = StartGroup(calls, groupStart + CONCURRENT_LIMIT)
    /\ bpc' = "embedding"
    /\ UNCHANGED <<testcases, resultIdx, insertFrom, totals>>
    /\ UNCHANGED exceptBatch

Init == RerankInit /\ HybridIdle /\ OrchIdle /\ DedupIdle /\ JobsIdle /\ BatchIdle

Next ==
    \/ Receive
    \/ ConnectOk
    \/ ConnectFail
    \/ EmbedSettle
    \/ BM25Done
    \/ BM25Fail
    \/ VectorDone
    \/ VectorFail
    \/ JoinAndFuse
    \/ CloseOk
    \/ CloseFail

Spec == Init /\ [][Next]_vars

NextHybrid ==
    \/ HybridReceive
    \/ HybridValidated
    \/ HybridInvalid
    \/ HybridBM25Done
    \/ HybridVectorDone
    \/ HybridCatch

SpecHybrid == Init /\ [][NextHybrid]_vars

NextOrch ==
    \/ StartRun
    \/ PreprocessSettle
    \/ SearchSettle
    \/ RerankSettle
    \/ DedupSettle
    \/ SummarizeSettle
    \/ GenerateSettle

SpecOrch == Init /\ [][NextOrch]_vars

\* every remote call the orchestrator awaits returns or fails
SpecOrchFair ==
    /\ SpecOrch
    /\ WF_vars(PreprocessSettle) /\ WF_vars(SearchSettle) /\ WF_vars(RerankSettle)
    /\ WF_vars(DedupSettle) /\ WF_vars(SummarizeSettle) /\ WF_vars(GenerateSettle)

NextDedup ==
    \/ DedupReject
    \/ DedupRespond

SpecDedup == Init /\ [][NextDedup]_vars

NextJobs ==
    \/ CreateEmbeddingsReject
    \/ CreateEmbeddings
    \/ \E j \in JobIds : ChildClose(j)
    \/ Sweep
    \/ Advance
    \/ \E jobId \in JobIds : GetJob(jobId)
    \/ ListActive

SpecJobs == Init /\ [][NextJobs]_vars

\* the steps that write the registry; the two GET endpoints only read it
NextJobWriters ==
    \/ CreateEmbeddingsReject
    \/ CreateEmbeddings
    \/ \E j \in JobIds : ChildClose(j)
    \/ Sweep
    \/ Advance

\* every spawned child process exits
SpecJobsFair == Init /\ [][NextJobWriters]_vars /\ \A j \in JobIds : WF_vars(ChildClose(j))

NextBatch ==
    \/ LoaderStart
    \/ \E b \in BatchNumbers : CallSettle(b)
    \/ \E b \in BatchNumbers : RetryTimer(b)
    \/ GroupJoin
    \/ InsertSettle
    \/ DelayTimer

SpecBatch == Init /\ [][NextBatch]_vars

(***************************************************************************)
(* Properties of the rerank request                                        *)
(***************************************************************************)
Responded200 == pc = "done" /\ res.status = 200
KnownMethod == req.fusionMethod \in {"rrf", "weighted", "reciprocal"}
Restrict(l, S) == SelectSeq(l, LAMBDA d : d.id \in S)
IdSet(l) == { l[i].id : i \in DOMAIN l }

\* C2: the lexical and the vector retrieval are started together, so both are in
\* flight at the same time, and fusion (step 2) has never begun unless both
\* retrievals have completed or one of them has failed.
C2_FusionAfterJoin ==
    /\ (bm25Task = "idle") <=> (vectorTask = "idle")
    /\ rerankStarted =>
          \/ bm25Task = "ok" /\ vectorTask = "ok"
          \/ bm25Task = "failed"
          \/ vectorTask = "failed"

C2_Witness ==
    /\ rerankStarted
    /\ bm25Task = "ok" /\ vectorTask = "ok"
    /\ bm25Results # << >> /\ vectorResults # << >>

\* the request reached the embedding call and no backend operation failed
BackendHealthy ==
    /\ req.query
    /\ conn # "none"
    /\ bm25Task # "failed" /\ vectorTask # "failed"
    /\ rerankStarted => conn = "closed"

\* C4: with a healthy search backend, an embedding service that fails twice and
\* then succeeds gives a successful response after three calls (two retries), and
\* one that fails four times in a row gives a 200 response marked degraded.
C4_EmbeddingRetryThenDegrade ==
    (pc = "done" /\ BackendHealthy) =>
        /\ embedFailures = 2 => (res.status = 200 /\ ~res.degraded /\ embedCalls = 3)
        /\ embedFailures >= 4 => (res.status = 200 /\ res.degraded)

C6_RrfSymmetric ==
    (rerankStarted /\ req.fusionMethod = "rrf") =>
        IdsOf(fusedResults) =
            IdsOf(Fuse(vectorResults, bm25Results, "rrf", req.bm25Weight, req.vectorWeight))

\* C7: under weighted-normalised fusion, when one source list is empty the fused
\* order is the order of the other source list.
C7_WeightedOneSourceEmpty ==
    (rerankStarted /\ req.fusionMethod = "weighted") =>
        /\ bm25Results = << >> => IdsOf(fusedResults) = IdsOf(vectorResults)
        /\ vectorResults = << >> => IdsOf(fusedResults) = IdsOf(bm25Results)

C7_Witness ==
    /\ rerankStarted /\ req.fusionMethod = "weighted"
    /\ bm25Results = << >>
    /\ Len(vectorResults) = 2
    /\ vectorResults[1].score > vectorResults[2].score
    /\ RatLess(RatZero, req.vectorWeight)
    /\ IdsOf(fusedResults) = IdsOf(vectorResults)

\* C8: weighted-normalised fusion with weights (1, 0) keeps the lexical list's
\* items in the lexical order, and with weights (0, 1) keeps the vector list's
\* items in the vector order.
C8_PureWeightsReproduceSourceOrder ==
    (rerankStarted /\ req.fusionMethod = "weighted") =>
        /\ (RatEq(req.bm25Weight, RatOne) /\ RatEq(req.vectorWeight, RatZero)) =>
              IdsOf(Restrict(fusedResults, IdSet(bm25Results))) = IdsOf(bm25Results)
        /\ (RatEq(req.bm25Weight, RatZero) /\ RatEq(req.vectorWeight, RatOne)) =>
              IdsOf(Restrict(fusedResults, IdSet(vectorResults))) = IdsOf(vectorResults)

InUnitInterval(r) == RatLeq(RatZero, r) /\ RatLeq(r, RatOne)
EntryOf(id) == fusedResults[PositionOf(fusedResults, id)]

\* C9: every normalised score lies in [0, 1], and in each non-empty source list
\* the highest-scoring candidate has normalised score exactly 1.
C9_NormalisedRangeAndTop ==
    (rerankStarted /\ KnownMethod) =>
        /\ \A i \in DOMAIN fusedResults :
              /\ InUnitInterval(fusedResults[i].bm25Normalized)
              /\ InUnitInterval(fusedResults[i].vectorNormalized)
        /\ bm25Results # << >> => RatEq(EntryOf(bm25Results[1].id).bm25Normalized, RatOne)
        /\ vectorResults # << >> => RatEq(EntryOf(vectorResults[1].id).vectorNormalized, RatOne)

AllScoresEqual(l) == l # << >> /\ \A i, j \in DOMAIN l : l[i].score = l[j].score

\* C10: when all raw scores of a source list are equal, every entry of that list
\* has normalised score 1.
C10_EqualScoresNormaliseToOne ==
    (rerankStarted /\ KnownMethod) =>
        /\ AllScoresEqual(bm25Results) =>
              \A i \in DOMAIN bm25Results :
                  RatEq(EntryOf(bm25Results[i].id).bm25Normalized, RatOne)
        /\ AllScoresEqual(vectorResults) =>
              \A i \in DOMAIN vectorResults :
                  RatEq(EntryOf(vectorResults[i].id).vectorNormalized, RatOne)

\* C11: the fused list is sorted by fused score in descending order under every
\* fusion policy: of two adjacent results the earlier one's fused score is
\* greater than or equal to the later one's; the returned list likewise.
C11_SortedByFusedScore ==
    /\ rerankStarted =>
          \A i \in 1..(Len(fusedResults) - 1) :
              RatLeq(fusedResults[i + 1].fusedScore, fusedResults[i].fusedScore)
    /\ Responded200 =>
          \A i \in 1..(Len(res.results) - 1) :
              RatLeq(res.results[i + 1].fusedScore, res.results[i].fusedScore)

\* the sort moved an entry found only by the vector retrieval in front of a
\* lexical hit
C11_Witness ==
    /\ Responded200
    /\ Len(res.results) = 2
    /\ RatLess(res.results[2].fusedScore, res.results[1].fusedScore)
    /\ res.results[1].foundIn = "vector"
    /\ res.results[2].bm25Rank = 1

\* the rank of an entry in the source list where it first appeared
FirstSourceRank(doc) == IF doc.bm25Rank # NoRank THEN doc.bm25Rank ELSE doc.vectorRank

\* C12: ties in fused score are broken deterministically: of two results with
\* equal fused score the one with the lower rank in the source where it first
\* appeared comes first, and if these ranks are equal too, the one with the
\* smaller id comes first.
C12_TieBreakByRankThenId ==
    (rerankStarted /\ KnownMethod) =>
        \A i, j \in DOMAIN fusedResults :
            (i < j /\ RatEq(fusedResults[i].fusedScore, fusedResults[j].fusedScore)) =>
                \/ FirstSourceRank(fusedResults[i]) < FirstSourceRank(fusedResults[j])
                \/ /\ FirstSourceRank(fusedResults[i]) = FirstSourceRank(fusedResults[j])
                   /\ fusedResults[i].id < fusedResults[j].id

\* the best (lowest) of the ranks of an entry in the sources that found it
BestRank(doc) ==
    IF doc.bm25Rank = NoRank THEN doc.vectorRank
    ELSE IF doc.vectorRank = NoRank THEN doc.bm25Rank
    ELSE Min(doc.bm25Rank, doc.vectorRank)

\* C13: for every fused result, rankChange = original best rank - newRank, the
\* best rank being the lowest of its ranks in the sources that found it and
\* newRank its 1-based position in the fused order.
C13_RankChangeFromBestRank ==
    rerankStarted =>
        \A i \in DOMAIN fusedResults :
            /\ fusedResults[i].newRank = i
            /\ fusedResults[i].rankChange = BestRank(fusedResults[i]) - i

\* weights the specification accepts: both non-negative
ValidWeights == RatLeq(RatZero, req.bm25Weight) /\ RatLeq(RatZero, req.vectorWeight)
InvalidArgument == ~req.query \/ ~ValidWeights \/ ~KnownMethod

\* C14: a request with a missing query, invalid weights or an unknown fusion
\* method makes no backend connection, no embedding call and no retrieval, and
\* is answered 400.
C14_InvalidArgumentRejectedFirst ==
    (pc # "idle" /\ InvalidArgument) =>
        /\ conn = "none"
        /\ embedCalls = 0
        /\ bm25Task = "idle" /\ vectorTask = "idle"
        /\ ~rerankStarted
        /\ pc = "done" /\ res.status = 400

(***************************************************************************)
(* Properties of deduplication                                             *)
(***************************************************************************)
Deduplicated200 == dpc = "done" /\ dedupRes.status = 200
\* the kept items the walk had already passed when it reached input position i
KeptBefore(i) == SelectSeq(dedupRes.deduplicated, LAMBDA k : k.id < i)
IsKept(i) == \E k \in DOMAIN dedupRes.deduplicated : dedupRes.deduplicated[k].id = i
Similarity(x, y) == calculateTextSimilarity(toLowerCase(x.title), toLowerCase(y.title))

\* C15: after deduplication at threshold 1.0, no two kept items share a
\* byte-identical title.
C15_NoIdenticalTitlesKept ==
    (Deduplicated200 /\ RatEq(dedupReq.threshold, RatOne)) =>
        \A i, j \in DOMAIN dedupRes.deduplicated :
            i # j => dedupRes.deduplicated[i].title # dedupRes.deduplicated[j].title

\* two identical titles were sent, one of them was removed and another title kept
C15_Witness ==
    /\ Deduplicated200 /\ RatEq(dedupReq.threshold, RatOne)
    /\ \E i, j \in DOMAIN dedupReq.results :
          /\ i < j
          /\ dedupReq.results[i].title = dedupReq.results[j].title
          /\ dedupReq.results[i].title # << >>
          /\ IsKept(i) /\ ~IsKept(j)
    /\ Len(dedupRes.deduplicated) = 2

\* C16: the kept list is a sublist of the input in input order; every input item
\* is either kept or removed; every removed item carries as duplicateOf the id
\* of the first already-kept item, in kept order, whose similarity to it reaches
\* the threshold; a later item whose title is identical to an earlier kept
\* item's is removed with duplicateOf that item's id.
C16_WalkInOrderFirstCollision ==
    Deduplicated200 =>
        LET results == dedupReq.results
            kept == dedupRes.deduplicated
            removed == dedupRes.duplicates
        IN  /\ \A k \in DOMAIN kept : kept[k] = results[kept[k].id]
            /\ \A k, l \in DOMAIN kept : k < l => kept[k].id < kept[l].id
            /\ \A d, e \in DOMAIN removed : d < e => removed[d].id < removed[e].id
            /\ \A i \in DOMAIN results :
                  IsKept(i) <=> ~(\E d \in DOMAIN removed : removed[d].id = i)
            /\ \A d \in DOMAIN removed :
                  LET before == KeptBefore(removed[d].id)
                      hits == { k \in DOMAIN before :
                                  RatLeq(dedupReq.threshold,
                                         Similarity(removed[d], before[k])) }
                  IN  /\ hits # {}
                      /\ removed[d].duplicateOf = before[MinOf(hits)].id
            /\ \A i, j \in DOMAIN results :
                  (i < j /\ IsKept(i) /\ results[i].title = results[j].title) =>
                      \E d \in DOMAIN removed :
                          removed[d].id = j /\ removed[d].duplicateOf = i

\* a removed item collides with two kept items and names the first; another
\* removed item has the title of a kept item
C16_Witness ==
    /\ Deduplicated200
    /\ Len(dedupRes.deduplicated) = 2
    /\ \E d \in DOMAIN dedupRes.duplicates :
          /\ \A k \in DOMAIN dedupRes.deduplicated :
                /\ dedupRes.deduplicated[k].id < dedupRes.duplicates[d].id
                /\ RatLeq(dedupReq.threshold,
                          Similarity(dedupRes.duplicates[d], dedupRes.deduplicated[k]))
          /\ dedupRes.duplicates[d].duplicateOf = dedupRes.deduplicated[1].id

\* C17: two items with empty titles and different content are not duplicates of
\* each other: neither is removed as a duplicate of the other.
C17_EmptyTitlesComparedOnContent ==
    Deduplicated200 =>
        \A i, j \in DOMAIN dedupReq.results :
            (/\ i < j
             /\ dedupReq.results[i].title = << >>
             /\ dedupReq.results[j].title = << >>
             /\ dedupReq.results[i].content # dedupReq.results[j].content) =>
                ~(\E d \in DOMAIN dedupRes.duplicates :
                      /\ dedupRes.duplicates[d].id = j
                      /\ dedupRes.duplicates[d].duplicateOf = i)

(***************************************************************************)
(* Properties of the job registry                                          *)
(***************************************************************************)
Age(job) == now - job.startTime

\* C18: a sweep removes every job whose start time is more than the TTL in
\* the past and keeps, unchanged, every job younger than the TTL; a get for an
\* id that is absent from the registry is answered 404.
C18_SweepEvictsExpired ==
    /\ [][Sweep =>
             \A j \in DOMAIN jobs :
                 /\ Age(jobs[j]) > TTL => j \notin DOMAIN jobs'
                 /\ Age(jobs[j]) < TTL => (j \in DOMAIN jobs' /\ jobs'[j] = jobs[j])]_vars
    /\ [][\A jobId \in JobIds :
             GetJob(jobId) => (jobRes'.status = 404 <=> jobId \notin DOMAIN jobs)]_vars

\* a job was created, the sweep removed it, and the get for its id was answered 404
C18_Witness ==
    /\ nextJob >= 1
    /\ 1 \notin DOMAIN jobs
    /\ now > TTL
    /\ jobRes.kind = "get" /\ jobRes.jobId = 1 /\ jobRes.status = 404

\* a record in which every update is applied as a whole
Untorn(job) ==
    /\ job.progress = Len(job.results)
    /\ job.total = Len(job.files)
    /\ job.status = "completed" <=> job.endTime # NoTime
    /\ job.status = "completed" => job.progress = job.total
    /\ job.currentFile # "null"

\* the values the worker of job j wrote last, field by field
LastWritten(j) ==
    LET w == worker[j]
        finished == w.i > Len(w.files)
    IN  /\ jobs[j].results = w.results
        /\ jobs[j].progress = Len(w.results)
        /\ jobs[j].currentFile = w.files[IF finished THEN Len(w.files) ELSE w.i]
        /\ jobs[j].status = IF finished THEN "completed" ELSE "in-progress"

Returned(c) == c.phase \in {"success", "failed"}

\* the state of one generateBatchEmbeddings call agrees with the retry policy
WithinRetryPolicy(c) ==
    /\ c.apiCalls <= 3
    /\ c.phase # "pending" => c.apiCalls = Min(c.attempt, 3)
    /\ c.phase = "success" => Len(c.waits) = c.apiCalls - 1
    /\ c.phase = "failed" => (c.apiCalls = 3 /\ Len(c.waits) = 2)
    /\ \A k \in DOMAIN c.waits :
          /\ c.waits[k] > 0 /\ c.waits[k] <= 10000
          /\ k > 1 => c.waits[k] = Min(2 * c.waits[k - 1], 10000)

\* C20: an embedding call is attempted at most 3 times; a call that has
\* returned, at its first success or after its third failed attempt, makes no
\* further attempt; the wait before each retry doubles from one retry to the
\* next and is never more than 10 seconds.
C20_RetryAtMostThreeWithBackoff ==
    /\ [](\A b \in DOMAIN calls : WithinRetryPolicy(calls[b]))
    /\ [][\A b \in DOMAIN calls : Returned(calls[b]) => calls'[b] = calls[b]]_vars

\* in one group: a call that succeeded at its second attempt after one wait, one
\* that succeeded at its third, and one that failed three times
C20_Witness ==
    /\ \E b \in DOMAIN calls :
          calls[b].phase = "success" /\ calls[b].apiCalls = 2 /\ calls[b].waits = <<2000>>
    /\ \E b \in DOMAIN calls :
          calls[b].phase = "success" /\ calls[b].apiCalls = 3
    /\ \E b \in DOMAIN calls :
          calls[b].phase = "failed" /\ calls[b].apiCalls = 3
              /\ calls[b].waits = <<2000, 4000>>

\* C25: for every job in the registry, progress equals the number of per-file
\* results recorded and never exceeds total; a completed job has progress =
\* total and exactly one result per input file, in input order; and no step
\* lowers the progress of a job.
C25_ProgressCountsResults ==
    /\ [](\A j \in DOMAIN jobs :
             /\ jobs[j].progress = Len(jobs[j].results)
             /\ jobs[j].progress <= jobs[j].total
             /\ jobs[j].status = "completed" =>
                   /\ jobs[j].progress = jobs[j].total
                   /\ Len(jobs[j].results) = Len(jobs[j].files)
                   /\ \A i \in DOMAIN jobs[j].results :
                         jobs[j].results[i].file = jobs[j].files[i])
    /\ [][\A j \in DOMAIN jobs :
             j \in DOMAIN jobs' => jobs'[j].progress >= jobs[j].progress]_vars

\* a completed two-file job whose first file failed
C25_Witness ==
    /\ 1 \in DOMAIN jobs
    /\ jobs[1].status = "completed"
    /\ jobs[1].total = 2 /\ jobs[1].progress = 2
    /\ jobs[1].results[1].status = "failed"
    /\ jobs[1].results[2].status = "completed"

WorkerFinished(j) == worker[j].i > Len(worker[j].files)

Evicted(j) == j \in DOMAIN worker /\ j \notin DOMAIN jobs

\* C27: a job the sweep has evicted never comes back: no step, and in
\* particular no update of its still-running worker, changes the registry for
\* its id; a get for its id is answered 404 and the active list never holds it.
C27_EvictedStaysEvicted ==
    /\ [][\A j \in JobIds : Evicted(j) => j \notin DOMAIN jobs']_vars
    /\ [][\A j \in JobIds : (Evicted(j) /\ ChildClose(j)) => jobs' = jobs]_vars
    /\ [][\A j \in JobIds : (Evicted(j) /\ GetJob(j)) => jobRes'.status = 404]_vars
    /\ [][ListActive =>
             \A b \in DOMAIN jobRes'.body : ~Evicted(jobRes'.body[b].id)]_vars

\* the job was evicted while in progress, its worker went on to the end, and a
\* get for its id was answered 404
C27_Witness ==
    /\ Evicted(1)
    /\ worker[1].orphaned
    /\ WorkerFinished(1)
    /\ jobRes.kind = "get" /\ jobRes.jobId = 1 /\ jobRes.status = 404

\* C28: a request that opened a backend connection has closed it by the time
\* its response is sent, on every exit path.
C28_ConnectionClosedBeforeResponse ==
    (pc = "done" /\ conn # "none") => conn = "closed"

\* C29: for the same lexical and vector lists and the same weights, the
\* hybrid endpoint's combination and the rerank endpoint's 'weighted' fusion
\* hold the same items in the same order, each with the same two normalised
\* scores, the same combined score and the same found-in tag.
C29_HybridEqualsWeightedFusion ==
    (hpc = "done" /\ hybridRes.status = 200) =>
        LET fused == Fuse(hybridBm25, hybridVector, "weighted", hybridReq.bm25Weight,
                          hybridReq.vectorWeight)
        IN  /\ Len(combinedResults) = Len(fused)
            /\ \A i \in DOMAIN combinedResults :
                  /\ combinedResults[i].id = fused[i].id
                  /\ RatEq(combinedResults[i].bm25ScoreNormalized, fused[i].bm25Normalized)
                  /\ RatEq(combinedResults[i].vectorScoreNormalized, fused[i].vectorNormalized)
                  /\ RatEq(combinedResults[i].hybridScore, fused[i].fusedScore)
                  /\ combinedResults[i].foundIn = fused[i].foundIn

\* two documents, one found by both searches, and the sort moved the second
\* lexical hit to the front
C29_Witness ==
    /\ hpc = "done" /\ hybridRes.status = 200
    /\ Len(combinedResults) = 2
    /\ Len(hybridBm25) = 2
    /\ combinedResults[1].id = hybridBm25[2].id
    /\ combinedResults[1].foundIn = "both"
    /\ combinedResults[2].foundIn = "bm25"
    /\ ~RatEq(combinedResults[2].hybridScore, RatZero)

\* the first ```json of t is at i and the first ``` after it is at k
IsCodeBlock(t, i, k) ==
    /\ i \in DOMAIN t /\ k \in DOMAIN t /\ i < k
    /\ t[i] = "fenceJson"
    /\ \A h \in 1..(i - 1) : t[h] # "fenceJson"
    /\ t[k] \in {"fence", "fenceJson"}
    /\ \A h \in (i + 1)..(k - 1) : t[h] \notin {"fence", "fenceJson"}

InsideBlock(t, i, k) == trim(SubSeq(t, i + 1, k - 1))

Warned(w) == \E i \in DOMAIN llmRagResult.validationErrors : llmRagResult.validationErrors[i] = w

GenerationAnswered == stageLog # << >> /\ stageLog[Len(stageLog)] = <<"generate", "ok">>

\* C22: when the generation call is answered, the run ends at checkpoint 100
\* with a result record, whatever the completion text is. A ```json block that
\* holds a complete object is parsed without its fences, with no parse or
\* truncation warning. A text that the server could not parse and whose block
\* content (or whole text, without a block) does not end with } gets the
\* truncation warning; one that does not parse gets the parse warning; both
\* only make validationPassed false.
C22_ValidationOnlyWarns ==
    GenerationAnswered =>
        /\ opc = "done" /\ ~llmRagTesting
        /\ llmRagResult.kind = "success"
        /\ generationProgress = 100
        /\ progressLog[Len(progressLog)] = 100
        /\ llmRagResult.validationPassed <=> llmRagResult.validationErrors = << >>
        /\ \A i, k \in DOMAIN aiResponse :
              IsCodeBlock(aiResponse, i, k) =>
                 /\ InsideBlock(aiResponse, i, k) = <<"object">> =>
                       /\ llmRagResult.response = "object"
                       /\ ~Warned("parse") /\ ~Warned("truncated")
                 /\ InsideBlock(aiResponse, i, k) # <<"object">> =>
                       /\ llmRagResult.response = "raw"
                       /\ Warned("parse") /\ ~llmRagResult.validationPassed
                 /\ ~endsWithBrace(InsideBlock(aiResponse, i, k)) => Warned("truncated")
        /\ (/\ aiResponse # << >>
            /\ ~JSONParses(aiResponse)
            /\ ~\E i, k \in DOMAIN aiResponse : IsCodeBlock(aiResponse, i, k)) =>
              /\ llmRagResult.response = "raw"
              /\ Warned("parse") /\ ~llmRagResult.validationPassed
              /\ ~endsWithBrace(aiResponse) => Warned("truncated")

\* a completion whose code block holds a text cut short: the run ended at 100
\* with a result that carries the truncation warning and the parse warning
C22_Witness ==
    /\ GenerationAnswered
    /\ aiResponse = <<"fenceJson", "cut", "fence">>
    /\ llmRagResult.kind = "success"
    /\ generationProgress = 100
    /\ Warned("truncated") /\ Warned("parse")

LastCall == stageLog[Len(stageLog)]

\* the last remote call made the run throw: it was rejected, or it was a
\* non-OK answer of a stage that throws on one
RunThrew ==
    /\ stageLog # << >>
    /\ \/ LastCall[2] = "reject"
       \/ LastCall[2] = "notok" /\ LastCall[1] \in {"search", "summarize", "generate"}

\* C23: every run ends, with the in-progress flag cleared and a result record
\* set. A run that aborted shows an error record and checkpoint 0; an error
\* record is never shown with a non-zero checkpoint, and while a run is in
\* progress no result of an earlier run is shown.
C23_RunsEndCleanly ==
    /\ [](opc = "done" => ~llmRagTesting /\ llmRagResult.kind \in {"success", "error"})
    /\ [](RunThrew => /\ opc = "done" /\ ~llmRagTesting
                      /\ llmRagResult.kind = "error"
                      /\ generationProgress = 0)
    /\ [](llmRagResult.kind = "error" => generationProgress = 0 /\ ~llmRagTesting)
    /\ [](llmRagTesting => llmRagResult.kind = "null")
    /\ [](llmRagTesting => <>(~llmRagTesting /\ opc = "done" /\ llmRagResult.kind # "null"))

\* a run aborted by a non-OK answer of the summarisation stage: checkpoint 55
\* was shown, then the error record with checkpoint 0
C23_Witness ==
    /\ opc = "done" /\ ~llmRagTesting
    /\ stageLog # << >> /\ LastCall = <<"summarize", "notok">>
    /\ llmRagResult.kind = "error"
    /\ generationProgress = 0
    /\ \E i \in DOMAIN progressLog : progressLog[i] = Checkpoint("summarize")

Called(stage, outcome) == \E i \in DOMAIN stageLog : stageLog[i] = <<stage, outcome>>

\* C24: a non-OK answer of the preprocessing, reranking or deduplication call
\* does not end the run: it goes on with the original query, with the first
\* 10 hybrid results, or with the list as it was before deduplication (after a
\* non-OK reranking the run ends only if that list is empty, as it does for
\* any empty list). Deduplication is called only for more than 5 results, at
\* most 10 results are kept after it and at most 5 go to the summariser.
C24_NonOkFallsBack ==
    /\ []((stageLog # << >> /\ LastCall = <<"preprocess", "notok">>) =>
             /\ opc = "search" /\ llmRagTesting /\ llmRagResult.kind = "null"
             /\ finalQuery = "original")
    /\ []((stageLog # << >> /\ LastCall = <<"rerank", "notok">>) =>
             /\ finalResults = Min(searchResults, 10)
             /\ finalResults > 5 => opc = "dedup" /\ llmRagResult.kind = "null"
             /\ finalResults \in 1..5 => opc = "summarize" /\ llmRagResult.kind = "null"
             /\ finalResults = 0 <=> llmRagResult.kind = "error")
    /\ [][stageLog' = Append(stageLog, <<"dedup", "notok">>) =>
             /\ finalResults' = finalResults
             /\ opc' = "summarize" /\ llmRagTesting' /\ llmRagResult'.kind = "null"]_vars
    /\ [][opc' = "dedup" => finalResults' > 5]_vars
    /\ [][(opc = "rerank" /\ finalResults' > 5) => opc' \in {"dedup", "done"}]_vars
    /\ [](topResults <= 10 /\ topResultsForSummary <= 5)
    /\ [](opc \in {"summarize", "generate"} =>
             /\ topResults = Min(finalResults, 10)
             /\ topResultsForSummary = Min(topResults, 5))

\* a run that got a non-OK answer from all three calls and still succeeded,
\* with 12 hybrid results cut to 10 and 5 of them summarised
C24_Witness ==
    /\ opc = "done" /\ llmRagResult.kind = "success"
    /\ Called("preprocess", "notok") /\ Called("rerank", "notok") /\ Called("dedup", "notok")
    /\ searchResults = 12
    /\ finalResults = 10 /\ topResults = 10
    /\ topResultsForSummary = 5

InFlight == { b \in DOMAIN calls : calls[b].phase \in {"calling", "waiting"} }

\* C21: at every moment at most 5 batch embedding calls are in flight, calls
\* waiting in retry backoff included; every batch holds at most 100 items; a
\* batch of a later group is started only when every batch of the groups before
\* it has settled.
C21_AtMostFiveInFlight ==
    /\ Cardinality(InFlight) <= 5
    /\ \A b \in DOMAIN calls : calls[b].batchSize >= 1 /\ calls[b].batchSize <= 100
    /\ \A a, b \in DOMAIN calls :
          ((a - 1) \div 5 < (b - 1) \div 5 /\ calls[b].phase # "pending") =>
              Returned(calls[a])

\* five calls of one group in flight at once, one of them in retry backoff
C21_Witness ==
    /\ Cardinality(InFlight) = 5
    /\ Len(calls) = 6
    /\ \E b \in InFlight : calls[b].phase = "waiting"
    /\ \E b \in InFlight : calls[b].phase = "calling" /\ calls[b].batchSize = 100
    /\ calls[6].phase = "pending"

\* the loop variable i at which batch b was sliced off
SliceStart(b) == (b - 1) * BATCH_SIZE

\* C30: when the main loop has finished, the batches are consecutive non-empty
\* slices that cover the input exactly once, processedCount equals the number
\* of input items, and totalInserted + totalFailed equals it too, whatever the
\* outcomes of the batch calls and of the inserts.
C30_LoaderAccountsForEveryItem ==
    bpc = "done" =>
        /\ \A b \in DOMAIN calls :
              /\ calls[b].batchSize >= 1
              /\ SliceStart(b) + calls[b].batchSize =
                    (IF b = Len(calls) THEN testcases ELSE SliceStart(b + 1))
        /\ calls = << >> => testcases = 0
        /\ \A b \in DOMAIN calls : Returned(calls[b])
        /\ totals.processedCount = testcases
        /\ totals.totalInserted + totals.totalFailed = testcases

\* six batches: one failed after three attempts, one succeeded on a retry, one
\* insert failed, the rest inserted
C30_Witness ==
    /\ bpc = "done"
    /\ testcases = 501
    /\ \E b \in DOMAIN calls : calls[b].phase = "failed"
    /\ \E b \in DOMAIN calls : calls[b].phase = "success" /\ calls[b].apiCalls = 2
    /\ totals.totalInserted = 301
    /\ totals.totalFailed = 200

(***************************************************************************)
(* Properties of the orchestrator                                          *)
(***************************************************************************)
NonDecreasing(s) == \A i, j \in DOMAIN s : i < j => s[i] <= s[j]
Settled(stage, outcomes) ==
    \E i \in DOMAIN stageLog : stageLog[i][1] = stage /\ stageLog[i][2] \in outcomes
\* the checkpoints emitted after the reset that starts the run
AfterStart == SubSeq(progressLog, 2, Len(progressLog))

\* C1 as stated: in every run the checkpoints emitted after the start are
\* non-decreasing, and a run that succeeds ends with checkpoint 100.
C1_CheckpointsMonotone ==
    /\ NonDecreasing(AfterStart)
    /\ llmRagResult.kind = "success" =>
          generationProgress = 100 /\ progressLog[Len(progressLog)] = 100

\* C1 as amended: the checkpoints emitted after the start are non-decreasing up
\* to the end of the run; a run that aborts then resets the checkpoint to 0; a
\* run that succeeds ends with checkpoint 100.
C1_CheckpointsMonotoneUntilAbort ==
    /\ llmRagResult.kind # "error" => NonDecreasing(AfterStart)
    /\ llmRagResult.kind = "error" =>
          /\ NonDecreasing(SubSeq(progressLog, 2, Len(progressLog) - 1))
          /\ progressLog[Len(progressLog)] = 0
          /\ generationProgress = 0
    /\ llmRagResult.kind = "success" =>
          generationProgress = 100 /\ progressLog[Len(progressLog)] = 100

C1_Witness ==
    /\ llmRagResult.kind = "success"
    /\ Settled("dedup", {"ok"})
    /\ progressLog = <<0, 5, 10, 20, 35, 45, 55, 65, 75, 90, 100>>

\* C3: when retrieval, fusion and deduplication succeeded and the summariser
\* fails, the run still ends successfully with the results populated, a null
\* summary and a SummariserFailure warning.
C3_SummariserFailureNotFatal ==
    (opc = "done" /\ Settled("summarize", {"notok", "reject"})) =>
        /\ llmRagResult.kind = "success"
        /\ llmRagResult.topResults > 0
        /\ llmRagResult.ragSummary = "null"

====
